---- MODULE Spec2Model ----
(***************************************************************************)
(* Echo: voice notes that are time-locked until an unlock date.            *)
(*                                                                         *)
(* The model follows the TypeScript sources: the lock screen               *)
(* (calculateUnlockDate, handleConfirm), the local store (uploadAudio,     *)
(* saveEchoRecord, getEchoes), the vault (fetchEchoes, processEchoData,    *)
(* getTimeUntilUnlock) and the notification service.                       *)
(*                                                                         *)
(* Time is an integer number of minutes since the model's epoch (UTC).     *)
(* A JavaScript Date is a record [valid, t]: t is the time value and       *)
(* valid = FALSE is the Invalid Date (time value NaN).                     *)
(***************************************************************************)
EXTENDS Integers, Sequences, FiniteSets, TLC

VARIABLES
    now,            \* the device clock, read by every `new Date()`
    tz,             \* the device's time zone (see Offset)
    lockOp,         \* lock screen: the last calculateUnlockDate call
    echoes,         \* vault state: setEchoes
    availableEchoes,\* vault state: setAvailableEchoes
    lockedEchoes,   \* vault state: setLockedEchoes
    vaultIn,        \* the list and clock reading of the last processEchoData call
    untilOut,       \* the last getTimeUntilUnlock call and the text it returned
    scheduled,      \* the platform's pending alerts (scheduled notifications)
    notifOp,        \* notification service: the last scheduleUnlockNotification call
    localDb,        \* AsyncStorage item LOCAL_DB_KEY: the list of stored records
    saveCalls,      \* the saveEchoRecord calls in flight, by caller
    getOp,          \* the last getEchoes call and the list it returned
    lib,            \* which lib/supabase.ts the screens import: "local" or "remote"
    selectedOption, \* lock screen state: the chosen option id, "" for null
    isLoading,      \* lock screen state: a save is pending
    lock,           \* lock screen: the handleConfirm call in flight
    alert,          \* lock screen: the last Alert.alert shown
    files,          \* the files in AUDIO_DIRECTORY
    remoteFiles,    \* the objects in the remote storage bucket
    uploadOp,       \* the last uploadAudio call on a given destination, and its outcome
    remoteDb,       \* the rows of the remote `echoes` table
    loading,        \* vault state: loading
    fetches,        \* vault: the fetchEchoes calls, by slot
    lastStarted,    \* vault: the slot of the fetchEchoes call that started last
    shownFrom,      \* vault: the slot of the fetchEchoes call whose lists are displayed
    mgmtOp,         \* the last call of the notification service and how it ended
    route,          \* the screen the navigator shows and its echoId parameter
    playback        \* playback screen state: what loadEchoData has done

clockVars == <<now, tz>>
policyVars == <<lockOp>>
vaultVars == <<echoes, availableEchoes, lockedEchoes, vaultIn>>
countdownVars == <<untilOut>>
notifVars == <<scheduled, notifOp>>
storeVars == <<localDb, saveCalls, getOp>>
lockVars == <<lib, selectedOption, isLoading, lock, alert>>
assetVars == <<files, remoteFiles, uploadOp>>
remoteVars == <<remoteDb>>
fetchVars == <<loading, fetches, lastStarted, shownFrom>>
tapVars == <<mgmtOp, route, playback>>
appVars == <<lockVars, assetVars, remoteVars, fetchVars, tapVars>>

vars == <<clockVars, policyVars, vaultVars, countdownVars, notifVars, storeVars, appVars>>

----------------------------------------------------------------------------
(* Bounds of the model *)

\* days on which the modelled calls start
MaxDay == 1
\* resolution of Math.random(): it returns k / RandRes for k in 0..RandRes-1
RandRes == 60
\* longest record list handed to processEchoData
MaxLen == 3
\* longest countdown tried, in days
MaxDiffDays == 3
\* most alerts the platform holds
MaxScheduled == 1
\* the clock of the notification specification runs from 0 to MaxNotifyTime
MaxNotifyTime == 1
\* most records the local store is filled with
MaxRecords == 2
\* the clock of the store specification runs from 0 to MaxStoreTime
MaxStoreTime == 1

----------------------------------------------------------------------------
(* Time *)

MinutesPerHour == 60
HoursPerDay == 24
HOUR == MinutesPerHour
DAY == HoursPerDay * HOUR

\* Math.floor in place of Math.ceil
CeilAsFloor(a, b) == a \div b

\* Math.ceil(a / b) for a >= 0, b > 0
Ceil(a, b) == (a + b - 1) \div b

Abs(x) == IF x < 0 THEN 0 - x ELSE x

DateOf(t) == [valid |-> TRUE, t |-> t]
InvalidDate == [valid |-> FALSE, t |-> 0]

\* a <= b on two Dates: both are converted to their time values and every
\* comparison with NaN is false
DateLE(a, b) == a.valid /\ b.valid /\ a.t <= b.t
\* a > b on two Dates
DateGT(a, b) == a.valid /\ b.valid /\ a.t > b.t

(* Strings that hold a date.  Iso(t) is the text toISOString() gives for   *)
(* the time value t; the other values are what a stored record can hold    *)
(* instead.                                                                *)
Iso(t) == [kind |-> "iso", t |-> t]
Garbage == [kind |-> "garbage", t |-> 0]
Undefined == [kind |-> "undefined", t |-> 0]

\* Date.prototype.toISOString of a valid Date
toISOString(d) == Iso(d.t)

\* new Date(s) for a string (or missing) s
ParseDate(s) == IF s.kind = "iso" THEN DateOf(s.t) ELSE InvalidDate

\* !s : the value is missing or the empty string
Falsy(s) == s.kind = "undefined"

----------------------------------------------------------------------------
(* Local time.  The zone is standard time (offset 0) except between        *)
(* springAt and fallAt (UTC instants), where clocks are one hour ahead.    *)

DstShift == HOUR
Never == 1000 * DAY

Offset(z, u) == IF u >= z.springAt /\ u < z.fallAt THEN DstShift ELSE 0

\* LocalTime(t): the local clock reading at the instant u
LocalOf(z, u) == u + Offset(z, u)

\* UTC(t): a local reading that is repeated or skipped by a transition is
\* interpreted with the offset in force before the transition
UTCOf(z, l) == l - Offset(z, l - DstShift)

LocalDay(z, u) == LocalOf(z, u) \div DAY
LocalTod(z, u) == LocalOf(z, u) % DAY

\* n * 24 hours of elapsed time in place of n calendar days
setDateElapsed(z, u, n) == u + n * DAY

\* d.setDate(d.getDate() + n): n local calendar days later, local time of
\* day kept
setDatePlus(z, u, n) == UTCOf(z, LocalOf(z, u) + n * DAY)

NoDst == [springAt |-> Never, fallAt |-> Never]
\* clocks go forward at 02:00 local on day d
SpringOn(d) == [springAt |-> d * DAY + 2 * HOUR, fallAt |-> Never]
\* clocks go back at 02:00 local (daylight time) on day d
FallOn(d) == [springAt |-> 0 - DAY, fallAt |-> d * DAY + 2 * HOUR - DstShift]

----------------------------------------------------------------------------
(* Lock screen: the unlock policy *)

unlockOptions ==
    << [id |-> "1day",   hasDays |-> TRUE,  days |-> 1,  isRandom |-> FALSE],
       [id |-> "7days",  hasDays |-> TRUE,  days |-> 7,  isRandom |-> FALSE],
       [id |-> "30days", hasDays |-> TRUE,  days |-> 30, isRandom |-> FALSE],
       [id |-> "random", hasDays |-> FALSE, days |-> 0,  isRandom |-> TRUE] >>

OptionSet == {unlockOptions[i] : i \in DOMAIN unlockOptions}

RandomSpan == 30

\* Math.round in place of Math.floor
randomDaysRounded(k) == ((2 * k * RandomSpan + RandRes) \div (2 * RandRes)) + 1

\* Math.floor(Math.random() * 30) + 1 where Math.random() = k / RandRes
randomDays(k) == ((k * RandomSpan) \div RandRes) + 1

\* option.days || 0
daysOrZero(option) == IF option.hasDays /\ option.days # 0 THEN option.days ELSE 0

daysToAdd(option, k) == IF option.isRandom THEN randomDays(k) ELSE daysOrZero(option)

\* calculateUnlockDate(option), called at the instant `at` in zone z with
\* the random draw k
calculateUnlockDate(z, at, option, k) == DateOf(setDatePlus(z, at, daysToAdd(option, k)))

----------------------------------------------------------------------------
(* Vault: partition of the records and the countdown text *)

\* unlockDate < now in place of unlockDate <= now
isAvailableStrict(echo, at) ==
    LET d == ParseDate(echo.unlock_at) IN d.valid /\ d.t < at

\* unlockDate <= now, with unlockDate = new Date(echo.unlock_at)
isAvailable(echo, at) == DateLE(ParseDate(echo.unlock_at), DateOf(at))

\* the records pushed to `available`, in input order
availablePart(data, at) == SelectSeq(data, LAMBDA e : isAvailable(e, at))

\* `else if (unlockDate > now)` in place of the plain else branch
lockedPartIfLater(data, at) ==
    SelectSeq(data, LAMBDA e : DateGT(ParseDate(e.unlock_at), DateOf(at)))

\* the records pushed to `locked` (the else branch), in input order
lockedPart(data, at) == SelectSeq(data, LAMBDA e : ~isAvailable(e, at))

\* every record pushed to `available`, whatever the clock reads
processEchoDataUnsplit(data, at) ==
    [echoes |-> data, available |-> data, locked |-> <<>>]

\* processEchoData(data) with `new Date()` = at: the three lists it sets
processEchoData(data, at) ==
    IF Len(data) > 0
    THEN [echoes |-> data,
          available |-> availablePart(data, at),
          locked |-> lockedPart(data, at)]
    ELSE [echoes |-> <<>>, available |-> <<>>, locked |-> <<>>]

\* The text getTimeUntilUnlock returns: `${n}${unit}` when the unit is
\* " days" or " hours", and the literal unit otherwise (n is then unused).
Text(n, unit) == [n |-> n, unit |-> unit]
LessThanAnHour == Text(0, "Less than an hour")

\* getTimeUntilUnlock(unlockAtString) with `new Date()` = at.  An unparseable
\* string makes diffTime NaN, and every comparison with NaN is false.
getTimeUntilUnlock(unlockAtString, at) ==
    LET unlockAt == ParseDate(unlockAtString)
        diffTime == Abs(unlockAt.t - at)
        diffDays == Ceil(diffTime, DAY)
        diffHours == Ceil(diffTime, HOUR)
    IN  IF ~unlockAt.valid THEN LessThanAnHour
        ELSE IF diffDays > 1 THEN Text(diffDays, " days")
        ELSE IF diffHours > 1 THEN Text(diffHours, " hours")
        ELSE LessThanAnHour

----------------------------------------------------------------------------
(* Local store: the records kept under LOCAL_DB_KEY *)

\* An EchoRecord.  A missing id or mood_tag is written "" (missing and empty
\* are both falsy); a missing created_at or unlock_at is Undefined.
Echo(id, user, url, created, unlock, mood) ==
    [id |-> id, user_id |-> user, audio_url |-> url, created_at |-> created,
     unlock_at |-> unlock, mood_tag |-> mood]

ANONYMOUS_USER_ID == "anonymous_user"

\* the values generateUUID() can return
Uuids == {"g1", "g2"}

\* getLocalRecords(): the stored list, or [] when the item cannot be read or
\* parsed (the error is logged and swallowed)
getLocalRecords(db, readOk) == IF readOk THEN db ELSE <<>>

\* saveLocalRecords(records): the stored list afterwards; a failed write is
\* logged and swallowed
saveLocalRecords(db, records, writeOk) == IF writeOk THEN records ELSE db

\* saveEchoRecord(record), local version, from `await saveLocalRecords(records)`
\* on: the stored list afterwards and the value returned (`return true`
\* follows the await; saveLocalRecords never throws)
saveEchoRecordLocal(db, records, writeOk) ==
    [db |-> saveLocalRecords(db, records, writeOk), saved |-> TRUE]

\* `id: generateUUID()` in place of `id: record.id || generateUUID()`
newRecordFreshId(record, uuid, at) ==
    [record EXCEPT !.id = uuid,
                   !.created_at = IF Falsy(record.created_at) THEN toISOString(DateOf(at))
                                  ELSE record.created_at]

\* { ...record, id: record.id || generateUUID(),
\*   created_at: record.created_at || new Date().toISOString() }
newRecord(record, uuid, at) ==
    [record EXCEPT !.id = IF record.id = "" THEN uuid ELSE record.id,
                   !.created_at = IF Falsy(record.created_at) THEN toISOString(DateOf(at))
                                  ELSE record.created_at]

\* new Date(r.created_at || '').getTime()
createdTime(r) == ParseDate(r.created_at).t

\* the comparator a - b in place of b - a
insertByCreatedAsc(sorted, e) ==
    LET p == Cardinality({i \in DOMAIN sorted : createdTime(sorted[i]) <= createdTime(e)})
    IN  SubSeq(sorted, 1, p) \o <<e>> \o SubSeq(sorted, p + 1, Len(sorted))

\* e put into a list sorted by created_at descending, after the records that
\* are not older (the sort is stable)
insertByCreated(sorted, e) ==
    LET p == Cardinality({i \in DOMAIN sorted : createdTime(sorted[i]) >= createdTime(e)})
    IN  SubSeq(sorted, 1, p) \o <<e>> \o SubSeq(sorted, p + 1, Len(sorted))

\* userRecords.sort((a, b) => time(b.created_at) - time(a.created_at))
RECURSIVE sortByCreatedDesc(_)
sortByCreatedDesc(records) ==
    IF records = <<>> THEN <<>>
    ELSE insertByCreated(sortByCreatedDesc(SubSeq(records, 1, Len(records) - 1)),
                         records[Len(records)])

\* getEchoes(userId): the user's records, newest first
getEchoes(db, readOk, userId) ==
    sortByCreatedDesc(SelectSeq(getLocalRecords(db, readOk), LAMBDA r : r.user_id = userId))

\* a saveEchoRecord call: idle, or waiting for getLocalRecords ("read"), or
\* waiting for saveLocalRecords ("write") with the list it will store
IdleCall == [pc |-> "idle", record |-> Echo("", "", "", Undefined, Undefined, ""),
             records |-> <<>>]
Callers == {"c1", "c2"}

----------------------------------------------------------------------------
(* Audio assets and the remote table: the two versions of lib/supabase.ts *)

\* a file name that does not take the clock reading
generateFileNameUntimed(at, rand) == [at |-> 0, rand |-> rand]

\* generateFileName(): `echo_${timestamp}_${randomString}.m4a`
generateFileName(at, rand) == [at |-> at, rand |-> rand]
NoFileName == [at |-> 0, rand |-> ""]

\* the values of Math.random().toString(36).substring(2, 8) tried
Rands == {"r1", "r2"}

\* What uploadAudio returns: the path of the copy (AUDIO_DIRECTORY + fileName),
\* the public URL of the uploaded object, or null.
LocalPath(fileName) == [store |-> "local", name |-> fileName]
PublicUrl(fileName) == [store |-> "remote", name |-> fileName]
NullUrl == [store |-> "", name |-> NoFileName]

\* What the file system and the network can do during uploadAudio:
\*   "ok"       every step succeeds
\*   "missing"  the source file does not exist (getInfoAsync / fetch fails)
\*   "failed"   the copy or the upload itself fails
TransferOutcomes == {"ok", "missing", "failed"}

\* uploadAudio(uri, fileName), local version: the value returned and the
\* files in AUDIO_DIRECTORY afterwards.  Every failure is caught and gives null.
uploadAudioLocal(fileName, dir, outcome) ==
    IF outcome = "ok"
    THEN [url |-> LocalPath(fileName), files |-> dir \cup {fileName}]
    ELSE [url |-> NullUrl, files |-> dir]

\* uploadAudio(uri, fileName), remote version: upload with upsert: false fails
\* when the object name is taken.
uploadAudioRemote(fileName, bucket, outcome) ==
    IF outcome = "ok" /\ fileName \notin bucket
    THEN [url |-> PublicUrl(fileName), files |-> bucket \cup {fileName}]
    ELSE [url |-> NullUrl, files |-> bucket]

\* saveEchoRecord(record), remote version: insert([record]); the rows
\* afterwards and the value returned
saveEchoRecordRemote(rows, record, insertOk) ==
    IF insertOk THEN [rows |-> Append(rows, record), saved |-> TRUE]
    ELSE [rows |-> rows, saved |-> FALSE]

----------------------------------------------------------------------------
(* Lock screen: handleConfirm *)

\* the upload is never taken to have failed (the `if (!audioUrl)` check lost)
uploadFailedIgnored(audioUrl) == FALSE

\* !audioUrl
uploadFailed(audioUrl) == audioUrl = NullUrl

NoEcho == Echo("", "", NullUrl, Undefined, Undefined, "")

\* the handleConfirm call: "idle" (none in flight), "upload" (awaiting
\* uploadAudio), "read" and "write" (awaiting saveEchoRecord, local version:
\* its getLocalRecords and its saveLocalRecords), "insert" (awaiting
\* saveEchoRecord, remote version)
IdleLock == [pc |-> "idle", option |-> unlockOptions[1], unlockDate |-> InvalidDate,
             fileName |-> NoFileName, audioUrl |-> NullUrl, echoData |-> NoEcho,
             records |-> <<>>]

optionById(id) == CHOOSE o \in OptionSet : o.id = id

\* echoData whose unlock_at is taken anew from the clock when it is built
echoDataRelocked(audioUrl, unlockDate, at) ==
    Echo("", ANONYMOUS_USER_ID, audioUrl, toISOString(DateOf(at)), toISOString(DateOf(at)), "")

\* echoData whose created_at runs against the clock
echoDataBackdated(audioUrl, unlockDate, at) ==
    Echo("", ANONYMOUS_USER_ID, audioUrl, toISOString(DateOf(0 - at)), toISOString(unlockDate), "")

\* the echoData handleConfirm builds once the audio is stored
echoDataOf(audioUrl, unlockDate, at) ==
    Echo("", ANONYMOUS_USER_ID, audioUrl, toISOString(DateOf(at)), toISOString(unlockDate), "")

----------------------------------------------------------------------------
(* Vault: fetchEchoes *)

\* the rows the query .eq('user_id', userId).order('created_at', desc) returns
remoteSelect(rows, userId) ==
    sortByCreatedDesc(SelectSeq(rows, LAMBDA r : r.user_id = userId))

\* local storage is read only when the remote read failed
needsLocalOnErrorOnly(failed, data) == failed

\* the branches of fetchEchoes that call getLocalEchoes(): `if (error)` and
\* the final else of `else if (data && data.length > 0)`
needsLocal(failed, data) == failed \/ ~(Len(data) > 0)

\* a fetchEchoes call: "idle", "remote" (awaiting the query), "local"
\* (awaiting getLocalEchoes), "done"; primary is how the query ended
\* ("error", "empty", "rows") and localRead whether getLocalEchoes was called
IdleFetch == [pc |-> "idle", primary |-> "", localRead |-> FALSE]
FetchSlots == {"f1"}

----------------------------------------------------------------------------
(* Notification service *)

\* what a call returns: null, or the identifier the platform gave the alert
NullResult == [isNull |-> TRUE, id |-> 0]
Identifier(n) == [isNull |-> FALSE, id |-> n]

\* !echo.id : the id is missing or the empty string (written "" in the model)
NoId(id) == id = ""

\* unlockDate < now in place of unlockDate <= now
notInFutureStrict(unlockDate, at) == unlockDate.valid /\ unlockDate.t < at

\* unlockDate <= now : "Don't schedule if unlock date is in the past"
notInFuture(unlockDate, at) == DateLE(unlockDate, DateOf(at))

\* What Notifications.scheduleNotificationAsync can do with the request: keep
\* it as a pending alert and return its identifier, or reject.  A trigger
\* whose date is the Invalid Date is outside the platform's contract: it may
\* also return an identifier and keep nothing.
PlatformOutcomes(unlockDate) ==
    IF unlockDate.valid THEN {"scheduled", "rejected"}
    ELSE {"scheduled", "rejected", "dropped"}

\* an identifier the platform has not handed out among `pending`
FreshIdentifier(pending) ==
    CHOOSE n \in 1..(Cardinality(pending) + 1) : \A a \in pending : a.identifier # n

\* scheduleUnlockNotification(echo) with `new Date()` = at, the pending
\* alerts `pending` and the platform behaving as `outcome`: the value
\* returned, whether an exception left the function, and the pending alerts
\* afterwards.
scheduleUnlockNotification(echo, at, pending, outcome) ==
    LET unlockDate == ParseDate(echo.unlock_at)
        n == FreshIdentifier(pending)
        quiet == [result |-> NullResult, raised |-> FALSE, pending |-> pending]
    IN  IF NoId(echo.id) \/ Falsy(echo.unlock_at) THEN quiet
        ELSE IF notInFuture(unlockDate, at) THEN quiet
        ELSE IF outcome = "scheduled"
             THEN [result |-> Identifier(n), raised |-> FALSE,
                   pending |-> pending \cup {[identifier |-> n, echoId |-> echo.id,
                                              date |-> unlockDate]}]
        ELSE IF outcome = "dropped"
             THEN [result |-> Identifier(n), raised |-> FALSE, pending |-> pending]
        ELSE quiet

----------------------------------------------------------------------------
(* Values the variables hold outside the specification that uses them *)

NoLockOp == [called |-> FALSE, option |-> unlockOptions[1], k |-> 0, days |-> 0,
             unlockDate |-> InvalidDate]
NoVaultIn == [called |-> FALSE, data |-> <<>>]
NoUntil == [called |-> FALSE, unlockAt |-> Undefined, text |-> LessThanAnHour]

NoNotifOp == [called |-> FALSE, echo |-> [id |-> "", unlock_at |-> Undefined],
              result |-> NullResult, raised |-> FALSE]
NoGetOp == [called |-> FALSE, userId |-> ANONYMOUS_USER_ID, readOk |-> FALSE, result |-> <<>>]

\* a call of the notification service: which function ("schedule", "list",
\* "cancel"), the identifier passed or returned (0 for none), whether the
\* platform did what was asked, whether an exception reached the caller, and
\* the alerts a listing returned
NoMgmtOp == [op |-> "none", id |-> 0, platformOk |-> TRUE, raised |-> FALSE, listed |-> {}]

\* the navigator: the screen shown and the echoId it was given
NoRoute == [screen |-> "HomeTab", echoId |-> ""]

\* the playback screen: not mounted ("none"), running loadEchoData ("load"),
\* showing an echo ("shown"), or showing one of its alerts ("locked",
\* "notFound")
NoPlayback == [pc |-> "none", echo |-> NoEcho]

\* no uploadAudio call yet: the destination's files (name -> content), the
\* source, the name asked for, whether the platform's transfer works, the
\* value returned and the destination's files afterwards
NoUploadOp == [called |-> FALSE, source |-> "missing", fileName |-> NoFileName,
               dir |-> <<>>, transferOk |-> FALSE, url |-> NullUrl, after |-> <<>>]

PolicyIdle == lockOp = NoLockOp
VaultIdle == echoes = <<>> /\ availableEchoes = <<>> /\ lockedEchoes = <<>> /\ vaultIn = NoVaultIn
CountdownIdle == untilOut = NoUntil
NotifIdle == scheduled = {} /\ notifOp = NoNotifOp
StoreIdle == localDb = <<>> /\ saveCalls = [c \in Callers |-> IdleCall] /\ getOp = NoGetOp
LockIdle == selectedOption = "" /\ isLoading = FALSE /\ lock = IdleLock /\ alert = "none"
AssetIdle == files = {} /\ remoteFiles = {} /\ uploadOp = NoUploadOp
FetchIdle ==
    /\ loading = TRUE /\ fetches = [f \in FetchSlots |-> IdleFetch]
    /\ lastStarted = "" /\ shownFrom = ""
TapIdle == mgmtOp = NoMgmtOp /\ route = NoRoute /\ playback = NoPlayback
AppIdle == lib = "local" /\ LockIdle /\ AssetIdle /\ remoteDb = <<>> /\ FetchIdle /\ TapIdle

----------------------------------------------------------------------------
(* Specification of the lock policy: calculateUnlockDate is called once at *)
(* a sampled instant, in a sampled zone, with any option and random draw.  *)

TodSamples == {0, HOUR + HOUR \div 2, 2 * HOUR, 2 * HOUR + HOUR \div 2, 3 * HOUR,
               12 * HOUR, DAY - 1}
PolicyNows == {d * DAY + t : d \in 0..MaxDay, t \in TodSamples}
\* the clock changes on a day that some fixed policy reaches from a sampled day
TransitionDays == {d + o.days : d \in 0..MaxDay, o \in {x \in OptionSet : x.hasDays}}
PolicyZones == {NoDst} \cup {SpringOn(d) : d \in TransitionDays}
                       \cup {FallOn(d) : d \in TransitionDays}

InitPolicy ==
    /\ now \in PolicyNows
    /\ tz \in PolicyZones
    /\ \E option \in OptionSet :
         \E k \in (IF option.isRandom THEN 0..(RandRes - 1) ELSE {0}) :
            lockOp = [NoLockOp EXCEPT !.option = option, !.k = k]
    /\ VaultIdle /\ CountdownIdle /\ NotifIdle /\ StoreIdle /\ AppIdle

CalculateUnlockDate ==
    /\ ~lockOp.called
    /\ lockOp' = [lockOp EXCEPT !.called = TRUE,
                                !.days = daysToAdd(lockOp.option, lockOp.k),
                                !.unlockDate = calculateUnlockDate(tz, now, lockOp.option, lockOp.k)]
    /\ UNCHANGED <<clockVars, vaultVars, countdownVars, notifVars, storeVars, appVars>>

NextPolicy == CalculateUnlockDate

SpecPolicy == InitPolicy /\ [][NextPolicy]_vars

----------------------------------------------------------------------------
(* Specification of the vault's partition: processEchoData is called once  *)
(* on any short list of records.                                           *)

VaultNows == {DAY, DAY + 1}
VaultIds == {"a", "b"}
VaultUnlocks == {Iso(DAY - 1), Iso(DAY), Iso(DAY + 1), Garbage, Undefined}

VaultRecords == {Echo(i, ANONYMOUS_USER_ID, "f", Iso(0), u, "") : i \in VaultIds, u \in VaultUnlocks}

SeqsUpTo(S, n) == UNION {[1..m -> S] : m \in 0..n}

InitVault ==
    /\ now \in VaultNows
    /\ tz = NoDst
    /\ echoes = <<>> /\ availableEchoes = <<>> /\ lockedEchoes = <<>>
    /\ \E data \in SeqsUpTo(VaultRecords, MaxLen) : vaultIn = [NoVaultIn EXCEPT !.data = data]
    /\ PolicyIdle /\ CountdownIdle /\ NotifIdle /\ StoreIdle /\ AppIdle

ProcessEchoData ==
    /\ ~vaultIn.called
    /\ LET r == processEchoData(vaultIn.data, now)
       IN  /\ echoes' = r.echoes
           /\ availableEchoes' = r.available
           /\ lockedEchoes' = r.locked
    /\ vaultIn' = [vaultIn EXCEPT !.called = TRUE]
    /\ UNCHANGED <<clockVars, policyVars, countdownVars, notifVars, storeVars, appVars>>

NextVault == ProcessEchoData

SpecVault == InitVault /\ [][NextVault]_vars

----------------------------------------------------------------------------
(* Specification of the countdown text: getTimeUntilUnlock is called once  *)
(* on an unlock time up to MaxDiffDays days from the clock reading.        *)

UntilInputs(at) == {Iso(at + d) : d \in (0 - DAY)..(MaxDiffDays * DAY)} \cup {Garbage, Undefined}

InitCountdown ==
    /\ now \in VaultNows
    /\ tz = NoDst
    /\ \E s \in UntilInputs(now) : untilOut = [NoUntil EXCEPT !.unlockAt = s]
    /\ PolicyIdle /\ VaultIdle /\ NotifIdle /\ StoreIdle /\ AppIdle

GetTimeUntilUnlock ==
    /\ ~untilOut.called
    /\ untilOut' = [untilOut EXCEPT !.called = TRUE,
                                    !.text = getTimeUntilUnlock(untilOut.unlockAt, now)]
    /\ UNCHANGED <<clockVars, policyVars, vaultVars, notifVars, storeVars, appVars>>

NextCountdown == GetTimeUntilUnlock

SpecCountdown == InitCountdown /\ [][NextCountdown]_vars

----------------------------------------------------------------------------
(* Properties of the partition (SpecVault) *)

Occ(seq, r) == Cardinality({i \in DOMAIN seq : seq[i] = r})
IdCount(seq, id) == Cardinality({i \in DOMAIN seq : seq[i].id = id})

\* the record's unlock_at is an instant and that instant is <= the clock
Due(e, at) == e.unlock_at.kind = "iso" /\ e.unlock_at.t <= at

\* C1: after processEchoData, a record is in `available` if and only if its
\* unlockAt <= now and in `locked` otherwise; unlockAt = now is available.
C1_AvailableIffDue ==
    vaultIn.called =>
        /\ echoes = vaultIn.data
        /\ \A i \in DOMAIN vaultIn.data :
             LET e == vaultIn.data[i]
             IN  IF Due(e, now)
                 THEN Occ(availableEchoes, e) = Occ(vaultIn.data, e) /\ Occ(lockedEchoes, e) = 0
                 ELSE Occ(lockedEchoes, e) = Occ(vaultIn.data, e) /\ Occ(availableEchoes, e) = 0
        /\ \A i \in DOMAIN availableEchoes : Due(availableEchoes[i], now)
        /\ \A i \in DOMAIN lockedEchoes : ~Due(lockedEchoes[i], now)

\* a record unlocking exactly now was put in `available`, next to a locked one
C1_Witness ==
    /\ vaultIn.called
    /\ \E i \in DOMAIN availableEchoes : availableEchoes[i].unlock_at = Iso(now)
    /\ \E i \in DOMAIN lockedEchoes : lockedEchoes[i].unlock_at = Iso(now + 1)

\* C2: the partition is exhaustive and disjoint: every input record is in
\* exactly one of the two lists, and the two lists together hold the same
\* multiset of ids as the input (duplicate ids and unparseable dates included).
C2_PartitionExhaustiveDisjoint ==
    vaultIn.called =>
        /\ Len(availableEchoes) + Len(lockedEchoes) = Len(vaultIn.data)
        /\ \A id \in VaultIds :
             IdCount(availableEchoes, id) + IdCount(lockedEchoes, id) = IdCount(vaultIn.data, id)
        /\ \A i \in DOMAIN vaultIn.data :
             LET e == vaultIn.data[i]
             IN  /\ Occ(availableEchoes, e) + Occ(lockedEchoes, e) = Occ(vaultIn.data, e)
                 /\ Occ(availableEchoes, e) = 0 \/ Occ(lockedEchoes, e) = 0

\* a list with a repeated id and an unparseable date was split in two
C2_Witness ==
    /\ vaultIn.called
    /\ \E i, j \in DOMAIN vaultIn.data : i # j /\ vaultIn.data[i].id = vaultIn.data[j].id
    /\ \E i \in DOMAIN vaultIn.data : vaultIn.data[i].unlock_at = Garbage
    /\ availableEchoes # <<>> /\ lockedEchoes # <<>>

----------------------------------------------------------------------------
(* Properties of the lock policy (SpecPolicy) *)

FixedCall == lockOp.called /\ ~lockOp.option.isRandom
RandomCall == lockOp.called /\ lockOp.option.isRandom

\* the local clock reading l is shown at no instant (skipped by a transition)
Skipped(z, l) == \A u \in {l, l - DstShift} : LocalOf(z, u) # l

\* C3 as stated: for a fixed policy P the result is now + P days at the same
\* time of day, for any now.
C3_SameTimeOfDayAlways ==
    FixedCall =>
        /\ lockOp.option.days \in {1, 7, 30}
        /\ lockOp.unlockDate.valid
        /\ LocalDay(tz, lockOp.unlockDate.t) = LocalDay(tz, now) + lockOp.option.days
        /\ LocalTod(tz, lockOp.unlockDate.t) = LocalTod(tz, now)

\* C3 amended: for a fixed policy P the result is on the local calendar day
\* P days after now's, at the same local time of day unless a clock change
\* skips that time on that day, in which case it is exactly P * 24 hours
\* after now; it is never now itself, and where the zone has no clock change
\* it is exactly P * 24 hours after now.
C3_CalendarDaysLater ==
    FixedCall =>
        LET P == lockOp.option.days
            r == lockOp.unlockDate.t
        IN  /\ P \in {1, 7, 30}
            /\ lockOp.days = P
            /\ lockOp.unlockDate.valid
            /\ r # now
            /\ LocalDay(tz, r) = LocalDay(tz, now) + P
            /\ \/ LocalTod(tz, r) = LocalTod(tz, now)
               \/ Skipped(tz, LocalOf(tz, now) + P * DAY) /\ r = now + P * DAY
            /\ r - now \in {P * DAY - HOUR, P * DAY, P * DAY + HOUR}
            /\ tz = NoDst => r = now + P * DAY

\* a 7-day lock whose local time of day is skipped on the target day
C3_Witness ==
    /\ FixedCall
    /\ lockOp.option.days = 7
    /\ Skipped(tz, LocalOf(tz, now) + 7 * DAY)
    /\ lockOp.unlockDate.t = now + 7 * DAY
    /\ LocalTod(tz, lockOp.unlockDate.t) = LocalTod(tz, now) + HOUR

\* C4: for the random policy the day offset is an integer of 1..30: none
\* outside is produced, and each of 1..30 is produced by some draw.
C4_RandomOffsetWithin1To30 ==
    /\ RandomCall =>
         /\ lockOp.days \in 1..30
         /\ LocalDay(tz, lockOp.unlockDate.t) = LocalDay(tz, now) + lockOp.days
    /\ \A d \in 1..30 : \E k \in 0..(RandRes - 1) : daysToAdd(unlockOptions[4], k) = d

\* the largest draw gave an offset of 30 days
C4_Witness ==
    /\ RandomCall
    /\ lockOp.k = RandRes - 1
    /\ lockOp.days = 30

----------------------------------------------------------------------------
(* Properties of the countdown text (SpecCountdown) *)

\* the least n with n * unit >= diff, found by search
LeastCover(diff, unit, top) ==
    CHOOSE n \in 0..top : n * unit >= diff /\ \A m \in 0..(n - 1) : m * unit < diff

\* C5: for diff = unlockAt - now >= 0 the text is "<N> days" with
\* N = ceil(diff / 24h) when N > 1, else "<N> hours" with N = ceil(diff / 1h)
\* when N > 1, else "Less than an hour"; 25 hours gives "2 days", 90 minutes
\* "2 hours", 30 minutes "Less than an hour"; never "0 days" or "1 days".
C5_CountdownText ==
    (untilOut.called /\ untilOut.unlockAt.kind = "iso" /\ untilOut.unlockAt.t >= now) =>
        LET diff == untilOut.unlockAt.t - now
            nd == LeastCover(diff, 24 * 60, MaxDiffDays + 1)
            nh == LeastCover(diff, 60, 24 * (MaxDiffDays + 1))
        IN  /\ untilOut.text = IF nd > 1 THEN Text(nd, " days")
                               ELSE IF nh > 1 THEN Text(nh, " hours")
                               ELSE LessThanAnHour
            /\ diff = 25 * 60 => untilOut.text = Text(2, " days")
            /\ diff = 90 => untilOut.text = Text(2, " hours")
            /\ diff = 30 => untilOut.text = LessThanAnHour
            /\ untilOut.text.unit = " days" => untilOut.text.n > 1

\* 25 hours to go was rendered as "2 days"
C5_Witness ==
    /\ untilOut.called
    /\ untilOut.unlockAt = Iso(now + 25 * 60)
    /\ untilOut.text = Text(2, " days")

----------------------------------------------------------------------------
(* Specification of the notification service: scheduleUnlockNotification   *)
(* is called on any echo while the clock runs.                             *)

NotifyIds == {"", "a", "b"}
NotifyUnlocks == {Iso(t) : t \in 0..(MaxNotifyTime + 1)} \cup {Garbage, Undefined}
NotifyEchoes == {[id |-> i, unlock_at |-> u] : i \in NotifyIds, u \in NotifyUnlocks}

InitNotify ==
    /\ now = 0
    /\ tz = NoDst
    /\ NotifIdle
    /\ PolicyIdle /\ VaultIdle /\ CountdownIdle /\ StoreIdle /\ AppIdle

\* the device clock advances
Tick ==
    /\ now < MaxNotifyTime
    /\ now' = now + 1
    /\ UNCHANGED <<tz, policyVars, vaultVars, countdownVars, notifVars, storeVars, appVars>>

ScheduleUnlockNotification ==
    \E echo \in NotifyEchoes :
        \E outcome \in PlatformOutcomes(ParseDate(echo.unlock_at)) :
            LET r == scheduleUnlockNotification(echo, now, scheduled, outcome)
            IN  /\ r.pending # scheduled => Cardinality(scheduled) < MaxScheduled
                /\ scheduled' = r.pending
                /\ notifOp' = [called |-> TRUE, echo |-> echo,
                               result |-> r.result, raised |-> r.raised]
                /\ UNCHANGED <<clockVars, policyVars, vaultVars, countdownVars, storeVars, appVars>>

NextNotify == Tick \/ ScheduleUnlockNotification

SpecNotify == InitNotify /\ [][NextNotify]_vars

----------------------------------------------------------------------------
(* Specification of the local store: saveEchoRecord and getEchoes are      *)
(* called one call after the other, while the clock runs and storage       *)
(* reads and writes can fail.                                              *)

StoreCallers == {"c1"}

Users == {ANONYMOUS_USER_ID, "u2"}

\* the records handed to saveEchoRecord
SaveInputs ==
    { Echo("",  ANONYMOUS_USER_ID, "f1", Undefined, Iso(1), ""),
      Echo("",  ANONYMOUS_USER_ID, "f2", Iso(1),    Iso(3), "calm"),
      Echo("a", ANONYMOUS_USER_ID, "f3", Iso(2),    Iso(1), "calm"),
      Echo("a", "u2",              "f4", Undefined, Iso(3), ""),
      Echo("",  "u2",              "f5", Iso(0),    Iso(2), "") }

InFlight == Cardinality({c \in Callers : saveCalls[c].pc # "idle"})

InitStore ==
    /\ now = 0
    /\ tz = NoDst
    /\ StoreIdle
    /\ PolicyIdle /\ VaultIdle /\ CountdownIdle /\ NotifIdle /\ AppIdle

\* the device clock advances
StoreTick ==
    /\ now < MaxStoreTime
    /\ now' = now + 1
    /\ UNCHANGED <<tz, policyVars, vaultVars, countdownVars, notifVars, storeVars, appVars>>

\* saveEchoRecord(record) is called and awaits getLocalRecords()
SaveEchoRecordCall(c) ==
    /\ saveCalls[c].pc = "idle"
    /\ Len(localDb) + InFlight < MaxRecords
    /\ \E record \in SaveInputs :
         saveCalls' = [saveCalls EXCEPT ![c] = [pc |-> "read", record |-> record,
                                                records |-> <<>>]]
    /\ UNCHANGED <<clockVars, policyVars, vaultVars, countdownVars, notifVars, appVars, localDb, getOp>>

\* getLocalRecords() returns; the new record is built and pushed, and the
\* call awaits saveLocalRecords(records).  (readOks: whether the read can work
\* and can fail.)
SaveEchoRecordReadWhen(c, readOks) ==
    /\ saveCalls[c].pc = "read"
    /\ \E readOk \in readOks, uuid \in Uuids :
         saveCalls' = [saveCalls EXCEPT ![c] =
             [pc |-> "write", record |-> @.record,
              records |-> Append(getLocalRecords(localDb, readOk),
                                 newRecord(@.record, uuid, now))]]
    /\ UNCHANGED <<clockVars, policyVars, vaultVars, countdownVars, notifVars, appVars, localDb, getOp>>

\* saveLocalRecords(records) returns and saveEchoRecord returns true.
\* (writeOks: whether the write can work and can fail.)
SaveEchoRecordWriteWhen(c, writeOks) ==
    /\ saveCalls[c].pc = "write"
    /\ \E writeOk \in writeOks :
         localDb' = saveEchoRecordLocal(localDb, saveCalls[c].records, writeOk).db
    /\ saveCalls' = [saveCalls EXCEPT ![c] = IdleCall]
    /\ getOp' = NoGetOp
    /\ UNCHANGED <<clockVars, policyVars, vaultVars, countdownVars, notifVars, appVars>>

SaveEchoRecordRead(c) == SaveEchoRecordReadWhen(c, BOOLEAN)
SaveEchoRecordWrite(c) == SaveEchoRecordWriteWhen(c, BOOLEAN)

\* getEchoes(userId) is called and returns (getOp holds the list returned
\* until the store is next written)
GetEchoes ==
    /\ \E userId \in Users, readOk \in BOOLEAN :
         getOp' = [called |-> TRUE, userId |-> userId, readOk |-> readOk,
                   result |-> getEchoes(localDb, readOk, userId)]
    /\ UNCHANGED <<clockVars, policyVars, vaultVars, countdownVars, notifVars, appVars, localDb, saveCalls>>

NextStore ==
    \/ StoreTick
    \/ \E c \in StoreCallers : SaveEchoRecordCall(c)
    \/ \E c \in StoreCallers : SaveEchoRecordRead(c)
    \/ \E c \in StoreCallers : SaveEchoRecordWrite(c)
    \/ GetEchoes

SpecStore == InitStore /\ [][NextStore]_vars

\* C8: getEchoes(userId) returns exactly the stored records whose user_id is
\* userId, none of another user and none left out, newest created_at first
\* (when the store can be read).
C8_UserRecordsNewestFirst ==
    (getOp.called /\ getOp.readOk) =>
        /\ \A i \in DOMAIN getOp.result : getOp.result[i].user_id = getOp.userId
        /\ \A i \in DOMAIN localDb :
             localDb[i].user_id = getOp.userId =>
                 Occ(getOp.result, localDb[i]) = Occ(localDb, localDb[i])
        /\ Len(getOp.result) =
             Cardinality({i \in DOMAIN localDb : localDb[i].user_id = getOp.userId})
        /\ \A i, j \in DOMAIN getOp.result :
             i < j => getOp.result[i].created_at.t >= getOp.result[j].created_at.t

\* two records of one user were returned newest first although stored oldest
\* first
C8_Witness ==
    /\ getOp.called /\ getOp.readOk
    /\ Len(getOp.result) = 2
    /\ getOp.result[1].created_at.t > getOp.result[2].created_at.t
    /\ localDb[1] = getOp.result[2]

\* C10: saveEchoRecord gives the stored record an id and a creation time
\* when the caller supplied none and keeps the caller's id and created_at
\* when supplied; every record in the store has both.
C10_IdAndCreatedAtAssigned ==
    /\ [](\A i \in DOMAIN localDb :
            localDb[i].id # "" /\ localDb[i].created_at.kind = "iso")
    /\ [][\A c \in Callers :
            (SaveEchoRecordWrite(c) /\ localDb' # localDb) =>
                LET given == saveCalls[c].record
                    kept == localDb'[Len(localDb')]
                IN  /\ IF given.id = "" THEN kept.id \in Uuids ELSE kept.id = given.id
                    /\ IF given.created_at.kind = "undefined"
                       THEN kept.created_at.kind = "iso" /\ kept.created_at.t \in 0..now
                       ELSE kept.created_at = given.created_at
                    /\ kept.user_id = given.user_id
                    /\ kept.audio_url = given.audio_url
         ]_vars

\* the store holds a record whose id was generated and one whose id and
\* created_at are the caller's
C10_Witness ==
    /\ \E i \in DOMAIN localDb : localDb[i].id \in Uuids /\ localDb[i].audio_url = "f1"
    /\ \E i \in DOMAIN localDb :
         localDb[i].id = "a" /\ localDb[i].created_at = Iso(2) /\ localDb[i].audio_url = "f3"

----------------------------------------------------------------------------
(* Specification of the save flow: the user picks an unlock option on the  *)
(* lock screen and confirms; handleConfirm transfers the audio and then    *)
(* saves the record, and either step can fail.                             *)

MaxLockTime == 1
MaxSaves == 1

\* the values of Math.random() tried by calculateUnlockDate, as k / RandRes
LockDraws == {RandRes - 1}

\* uploadAudio as imported by the lock screen
uploadAudio(fileName, outcome) ==
    IF lib = "local"
    THEN [url |-> uploadAudioLocal(fileName, files, outcome).url,
          files |-> uploadAudioLocal(fileName, files, outcome).files,
          remoteFiles |-> remoteFiles]
    ELSE [url |-> uploadAudioRemote(fileName, remoteFiles, outcome).url,
          files |-> files,
          remoteFiles |-> uploadAudioRemote(fileName, remoteFiles, outcome).files]

Init ==
    /\ now = 0
    /\ tz = NoDst
    /\ lib \in {"local", "remote"}
    /\ LockIdle /\ AssetIdle /\ remoteDb = <<>> /\ FetchIdle /\ TapIdle
    /\ StoreIdle
    /\ PolicyIdle /\ VaultIdle /\ CountdownIdle /\ NotifIdle

\* the device clock advances
LockTick ==
    /\ now < MaxLockTime
    /\ now' = now + 1
    /\ UNCHANGED <<tz, policyVars, vaultVars, countdownVars, notifVars, storeVars, appVars>>

\* the confirm button would never be disabled
confirmNeverDisabled == FALSE

\* the confirm button's `disabled={isLoading}`
confirmDisabled == isLoading

\* an option button is pressed (the buttons are disabled while isLoading)
HandleOptionSelect(optionId) ==
    /\ ~isLoading
    /\ selectedOption' = optionId
    /\ UNCHANGED <<clockVars, policyVars, vaultVars, countdownVars, notifVars, storeVars,
                   lib, isLoading, lock, alert, assetVars, remoteVars, fetchVars, tapVars>>

\* the confirm button is pressed with no option selected
HandleConfirmNoSelection ==
    /\ ~confirmDisabled
    /\ selectedOption = ""
    /\ alert' = "selection"
    /\ UNCHANGED <<clockVars, policyVars, vaultVars, countdownVars, notifVars, storeVars,
                   lib, selectedOption, isLoading, lock, assetVars, remoteVars, fetchVars, tapVars>>

\* the confirm button is pressed with an option selected: handleConfirm runs
\* up to `await uploadAudio(recordingUri, fileName)`
HandleConfirm ==
    /\ ~confirmDisabled
    /\ selectedOption # ""
    /\ isLoading' = TRUE
    /\ \E k \in LockDraws, rand \in Rands :
         lock' = [IdleLock EXCEPT
                    !.pc = "upload",
                    !.option = optionById(selectedOption),
                    !.unlockDate = calculateUnlockDate(tz, now, optionById(selectedOption), k),
                    !.fileName = generateFileName(now, rand)]
    /\ UNCHANGED <<clockVars, policyVars, vaultVars, countdownVars, notifVars, storeVars,
                   lib, selectedOption, alert, assetVars, remoteVars, fetchVars, tapVars>>

\* uploadAudio returns: on null handleConfirm throws, shows the error alert
\* and ends; otherwise it builds echoData and awaits saveEchoRecord(echoData).
\* (Transfers succeed while the stores hold fewer than `most` records.)
UploadAudioReturnsWithin(outcome, most) ==
    /\ lock.pc = "upload"
    /\ outcome = "ok" => Len(localDb) + Len(remoteDb) < most
    /\ files' = uploadAudio(lock.fileName, outcome).files
    /\ remoteFiles' = uploadAudio(lock.fileName, outcome).remoteFiles
    /\ IF uploadFailed(uploadAudio(lock.fileName, outcome).url)
       THEN /\ alert' = "error"
            /\ isLoading' = FALSE
            /\ lock' = IdleLock
       ELSE /\ lock' = [lock EXCEPT
                          !.pc = IF lib = "local" THEN "read" ELSE "insert",
                          !.audioUrl = uploadAudio(lock.fileName, outcome).url,
                          !.echoData = echoDataOf(uploadAudio(lock.fileName, outcome).url,
                                                  lock.unlockDate, now)]
            /\ UNCHANGED <<alert, isLoading>>
    /\ UNCHANGED <<clockVars, policyVars, vaultVars, countdownVars, notifVars, storeVars,
                   lib, selectedOption, uploadOp, remoteVars, fetchVars, tapVars>>

\* saveEchoRecord, local version: getLocalRecords() returns, the new record is
\* pushed and the call awaits saveLocalRecords(records)
ConfirmSaveRead ==
    /\ lock.pc = "read"
    /\ \E readOk \in BOOLEAN, uuid \in Uuids :
         lock' = [lock EXCEPT
                    !.pc = "write",
                    !.records = Append(getLocalRecords(localDb, readOk),
                                       newRecord(lock.echoData, uuid, now))]
    /\ UNCHANGED <<clockVars, policyVars, vaultVars, countdownVars, notifVars, storeVars,
                   lib, selectedOption, isLoading, alert, assetVars, remoteVars, fetchVars, tapVars>>

\* saveEchoRecord, local version: saveLocalRecords(records) returns and
\* saveEchoRecord returns true; handleConfirm shows the success alert and ends
ConfirmSaveWrite ==
    /\ lock.pc = "write"
    /\ \E writeOk \in BOOLEAN :
         localDb' = saveLocalRecords(localDb, lock.records, writeOk)
    /\ alert' = "locked"
    /\ isLoading' = FALSE
    /\ lock' = IdleLock
    /\ UNCHANGED <<clockVars, policyVars, vaultVars, countdownVars, notifVars,
                   saveCalls, getOp, lib, selectedOption, assetVars, remoteVars, fetchVars, tapVars>>

\* saveEchoRecord, remote version: the insert returns; handleConfirm shows the
\* success alert, or throws and shows the error alert, and ends
ConfirmSaveInsert ==
    /\ lock.pc = "insert"
    /\ \E insertOk \in BOOLEAN :
         /\ remoteDb' = saveEchoRecordRemote(remoteDb, lock.echoData, insertOk).rows
         /\ alert' = IF saveEchoRecordRemote(remoteDb, lock.echoData, insertOk).saved
                     THEN "locked" ELSE "error"
    /\ isLoading' = FALSE
    /\ lock' = IdleLock
    /\ UNCHANGED <<clockVars, policyVars, vaultVars, countdownVars, notifVars, storeVars,
                   lib, selectedOption, assetVars, fetchVars, tapVars>>

UploadAudioReturns(outcome) == UploadAudioReturnsWithin(outcome, MaxSaves)

Next ==
    \/ LockTick
    \/ \E optionId \in {o.id : o \in OptionSet} : HandleOptionSelect(optionId)
    \/ HandleConfirmNoSelection
    \/ HandleConfirm
    \/ \E outcome \in TransferOutcomes : UploadAudioReturns(outcome)
    \/ ConfirmSaveRead
    \/ ConfirmSaveWrite
    \/ ConfirmSaveInsert

Spec == Init /\ [][Next]_vars

\* the audio a stored record refers to was transferred
Transferred(record) ==
    /\ ~uploadFailed(record.audio_url)
    /\ record.audio_url.store = "local" => record.audio_url.name \in files
    /\ record.audio_url.store = "remote" => record.audio_url.name \in remoteFiles

\* C7: in the save flow no record is ever persisted whose audio reference
\* comes from a transfer that failed: every record in the local store and in
\* the remote table refers to a transferred file, and a step in which
\* uploadAudio returns null ends the attempt with the error alert, without
\* invoking saveEchoRecord and with both stores unchanged.
C7_NoRecordForFailedTransfer ==
    /\ [](/\ \A i \in DOMAIN localDb : Transferred(localDb[i])
          /\ \A i \in DOMAIN remoteDb : Transferred(remoteDb[i])
          /\ lock.pc \in {"read", "write", "insert"} => ~uploadFailed(lock.audioUrl))
    /\ [][\A outcome \in TransferOutcomes :
            (UploadAudioReturns(outcome) /\ uploadAudio(lock.fileName, outcome).url = NullUrl)
              => /\ lock'.pc = "idle"
                 /\ alert' = "error"
                 /\ ~isLoading'
                 /\ localDb' = localDb
                 /\ remoteDb' = remoteDb
                 /\ files' = files /\ remoteFiles' = remoteFiles
         ]_vars

\* an attempt whose transfer failed has ended with the error alert after an
\* earlier attempt stored a record: the store still holds just that record
C7_Witness ==
    /\ alert = "error"
    /\ lock.pc = "idle"
    /\ lib = "local"
    /\ Len(localDb) = 1
    /\ Cardinality(files) = 1

----------------------------------------------------------------------------
(* Specification of the vault listing: fetchEchoes reads the remote table  *)
(* and falls back to local storage; the contents of both stores are drawn  *)
(* in Init, and either read can fail.                                      *)

MaxFetchLen == 2

\* the instants of the listing, among the unlock times of the records
FetchNows == {1, 2}

\* the records the two stores can hold
FetchRecords ==
    { Echo("a", ANONYMOUS_USER_ID, "f", Iso(0), Iso(0), ""),
      Echo("b", ANONYMOUS_USER_ID, "f", Iso(1), Iso(2), ""),
      Echo("c", ANONYMOUS_USER_ID, "f", Iso(2), Iso(1), ""),
      Echo("d", "u2",              "f", Iso(1), Iso(0), "") }

InitFetch ==
    /\ now \in FetchNows
    /\ tz = NoDst
    /\ remoteDb \in SeqsUpTo(FetchRecords, MaxFetchLen)
    /\ localDb \in SeqsUpTo(FetchRecords, MaxFetchLen)
    /\ saveCalls = [c \in Callers |-> IdleCall] /\ getOp = NoGetOp
    /\ lib = "local" /\ LockIdle /\ AssetIdle /\ FetchIdle /\ TapIdle
    /\ PolicyIdle /\ VaultIdle /\ CountdownIdle /\ NotifIdle

\* fetchEchoes() is called (on mount, on focus, by the Refresh button) and
\* awaits the remote query
FetchEchoesCall(f) ==
    /\ fetches[f].pc \in {"idle", "done"}
    /\ loading' = TRUE
    /\ fetches' = [fetches EXCEPT ![f] = [IdleFetch EXCEPT !.pc = "remote"]]
    /\ lastStarted' = f
    /\ UNCHANGED shownFrom
    /\ UNCHANGED <<clockVars, policyVars, vaultVars, countdownVars, notifVars, storeVars,
                   lockVars, assetVars, remoteVars, tapVars>>

\* the remote query returns {data, error}: on an error or on no rows
\* fetchEchoes awaits getLocalEchoes(), otherwise it processes the rows and ends
FetchRemoteReturns(f) ==
    /\ fetches[f].pc = "remote"
    /\ \E failed \in BOOLEAN :
         LET data == IF failed THEN <<>> ELSE remoteSelect(remoteDb, ANONYMOUS_USER_ID)
             primary == IF failed THEN "error" ELSE IF Len(data) > 0 THEN "rows" ELSE "empty"
         IN  IF needsLocal(failed, data)
             THEN /\ fetches' = [fetches EXCEPT ![f] = [@ EXCEPT !.pc = "local",
                                                                 !.primary = primary]]
                  /\ UNCHANGED <<loading, echoes, availableEchoes, lockedEchoes, shownFrom>>
             ELSE /\ echoes' = processEchoData(data, now).echoes
                  /\ availableEchoes' = processEchoData(data, now).available
                  /\ lockedEchoes' = processEchoData(data, now).locked
                  /\ loading' = FALSE
                  /\ shownFrom' = f
                  /\ fetches' = [fetches EXCEPT ![f] = [@ EXCEPT !.pc = "done",
                                                                 !.primary = primary]]
    /\ UNCHANGED <<clockVars, policyVars, vaultIn, countdownVars, notifVars, storeVars,
                   lockVars, assetVars, remoteVars, tapVars, lastStarted>>

\* getLocalEchoes() returns getEchoes(ANONYMOUS_USER_ID); fetchEchoes
\* processes the list and ends
FetchLocalReturns(f) ==
    /\ fetches[f].pc = "local"
    /\ \E readOk \in BOOLEAN :
         LET localData == getEchoes(localDb, readOk, ANONYMOUS_USER_ID)
         IN  /\ echoes' = processEchoData(localData, now).echoes
             /\ availableEchoes' = processEchoData(localData, now).available
             /\ lockedEchoes' = processEchoData(localData, now).locked
    /\ loading' = FALSE
    /\ shownFrom' = f
    /\ fetches' = [fetches EXCEPT ![f] = [@ EXCEPT !.pc = "done", !.localRead = TRUE]]
    /\ UNCHANGED <<clockVars, policyVars, vaultIn, countdownVars, notifVars, storeVars,
                   lockVars, assetVars, remoteVars, tapVars, lastStarted>>

NextFetch ==
    \/ \E f \in FetchSlots : FetchEchoesCall(f)
    \/ \E f \in FetchSlots : FetchRemoteReturns(f)
    \/ \E f \in FetchSlots : FetchLocalReturns(f)

SpecFetch == InitFetch /\ [][NextFetch]_vars

\* C9: when the vault lists echoes, local storage is read if and only if the
\* remote read failed or returned no rows; a non-empty remote result is
\* displayed as is, without reading local storage.
C9_LocalReadIffPrimaryFailedOrEmpty ==
    \A f \in FetchSlots :
        /\ fetches[f].pc = "local" => fetches[f].primary \in {"error", "empty"}
        /\ fetches[f].pc = "done" =>
             /\ fetches[f].localRead <=> fetches[f].primary \in {"error", "empty"}
             /\ fetches[f].primary = "rows" =>
                  /\ echoes = remoteSelect(remoteDb, ANONYMOUS_USER_ID)
                  /\ Len(echoes) > 0

\* a listing has ended that found no rows for the user in a remote table
\* that holds another user's row, and shows the records read from local storage
C9_Witness ==
    /\ fetches["f1"].pc = "done"
    /\ fetches["f1"].primary = "empty"
    /\ fetches["f1"].localRead
    /\ Len(remoteDb) > 0
    /\ Len(echoes) > 0

----------------------------------------------------------------------------
(* Round trip through the local store *)

\* the records of `list` that carry the audio reference, unlock time and
\* mood tag of `record`
Matching(list, record) ==
    {i \in DOMAIN list : /\ list[i].audio_url = record.audio_url
                         /\ list[i].unlock_at = record.unlock_at
                         /\ list[i].mood_tag = record.mood_tag}

\* C11: round trip: once saveEchoRecord(record) has returned true, what
\* getEchoes(record.user_id) reads from the store contains a record with the
\* audio_url, unlock_at and mood_tag of the record saved.
C11_RoundTrip ==
    [][\A c \in Callers :
            SaveEchoRecordWrite(c) =>
                Matching(getEchoes(localDb', TRUE, saveCalls[c].record.user_id),
                         saveCalls[c].record) # {}
      ]_vars

----------------------------------------------------------------------------
(* The unlock time of persisted records *)

Range(list) == {list[i] : i \in DOMAIN list}

\* C12: unlock_at is set once, at creation: the record a save adds carries
\* the unlock time the policy gave when Confirm was pressed, the pending
\* call keeps that time until it ends, and every other record of either
\* store is, after any step, a record that was there before the step,
\* unchanged.
C12_UnlockAtSetOnce ==
    [][/\ \A i \in DOMAIN localDb' :
             \/ localDb'[i] \in Range(localDb)
             \/ /\ i = Len(localDb') /\ lock.pc = "write"
                /\ localDb'[i].unlock_at = toISOString(lock.unlockDate)
       /\ \A i \in DOMAIN remoteDb' :
             \/ i \in DOMAIN remoteDb /\ remoteDb'[i] = remoteDb[i]
             \/ /\ i = Len(remoteDb') /\ lock.pc = "insert"
                /\ remoteDb'[i].unlock_at = toISOString(lock.unlockDate)
       /\ (lock.pc = "idle" /\ lock'.pc # "idle") =>
             \E k \in LockDraws :
                lock'.unlockDate = calculateUnlockDate(tz, now, optionById(selectedOption), k)
       /\ (lock.pc # "idle" /\ lock'.pc # "idle") => lock'.unlockDate = lock.unlockDate
      ]_vars

\* a record locked for 7 days is in the store unchanged after the clock has
\* moved and another option has been selected
C12_Witness ==
    /\ Len(localDb) = 1
    /\ localDb[1].unlock_at = Iso(7 * DAY)
    /\ now > localDb[1].created_at.t
    /\ selectedOption = "30days"
    /\ lock.pc = "idle"

----------------------------------------------------------------------------
(* Identifiers and creation times in the store *)

\* C13: after any sequence of saves no two records of the store have the
\* same id, whether generateUUID made the id or the caller supplied it.
C13_IdsUnique ==
    \A i, j \in DOMAIN localDb : i # j => localDb[i].id # localDb[j].id

----------------------------------------------------------------------------
(* Specification of successive saves: the save flow of the lock screen,    *)
(* from the point where the 1-day option has been selected, followed over  *)
(* up to MaxSeqSaves stored records, into the local store.                 *)

MaxSeqSaves == 2

InitSaves ==
    /\ now = 0
    /\ tz = NoDst
    /\ lib = "local"
    /\ selectedOption = "1day" /\ isLoading = FALSE /\ lock = IdleLock /\ alert = "none"
    /\ AssetIdle /\ remoteDb = <<>> /\ FetchIdle /\ TapIdle
    /\ StoreIdle
    /\ PolicyIdle /\ VaultIdle /\ CountdownIdle /\ NotifIdle

NextSaves ==
    \/ LockTick
    \/ HandleConfirm
    \/ \E outcome \in TransferOutcomes : UploadAudioReturnsWithin(outcome, MaxSeqSaves)
    \/ ConfirmSaveRead
    \/ ConfirmSaveWrite

SpecSaves == InitSaves /\ [][NextSaves]_vars

----------------------------------------------------------------------------
(* One save at a time on the lock screen *)

\* C15: at most one save is in flight per lock screen: a handleConfirm call
\* is pending exactly while isLoading is true, a call starts only when none
\* is pending (the confirm control is disabled meanwhile), and a call adds at
\* most one record to the stores.
C15_OneSaveInFlight ==
    /\ [](isLoading <=> lock.pc # "idle")
    /\ [][/\ (lock' # lock /\ lock'.pc = "upload") =>
                (lock.pc = "idle" /\ ~isLoading /\ isLoading')
          /\ Len(localDb') + Len(remoteDb') <= Len(localDb) + Len(remoteDb) + 1
          /\ Len(localDb') + Len(remoteDb') > Len(localDb) + Len(remoteDb) =>
                (lock.pc \in {"write", "insert"} /\ lock'.pc = "idle")
         ]_vars

\* a second save is pending, with the confirm control disabled, after an
\* earlier one stored its record
C15_Witness ==
    /\ isLoading
    /\ lock.pc = "upload"
    /\ Len(localDb) + Len(remoteDb) = 1

----------------------------------------------------------------------------
(* Failure of the remote insert *)

\* C16: when the insert into the remote table fails, the save path writes
\* the record to the local store instead, so that after the save attempt the
\* record is in at least one of the two stores.
C16_FallbackWriteOnInsertFailure ==
    [][(lock.pc = "insert" /\ lock'.pc = "idle") =>
          \/ Matching(remoteDb', lock.echoData) # {}
          \/ Matching(localDb', lock.echoData) # {}
      ]_vars

----------------------------------------------------------------------------
(* Records with an invalid unlock time *)

\* the lock check of loadEchoData left out
playbackNeverLocked(echo, at) == FALSE

\* the lock check of loadEchoData: `unlockDate > now`
playbackLocked(echo, at) == DateGT(ParseDate(echo.unlock_at), DateOf(at))

\* C17: a record whose unlock_at is invalid or missing is classified as
\* available (fail open) by the partition and by the lock check of
\* playback, and never as locked.
C17_InvalidUnlockAtFailsOpen ==
    vaultIn.called =>
        \A i \in DOMAIN vaultIn.data :
            ~ParseDate(vaultIn.data[i].unlock_at).valid =>
                /\ Occ(availableEchoes, vaultIn.data[i]) > 0
                /\ Occ(lockedEchoes, vaultIn.data[i]) = 0
                /\ ~playbackLocked(vaultIn.data[i], now)

----------------------------------------------------------------------------
(* Specification of alert management: alerts are scheduled, listed and     *)
(* cancelled through the notification service while the clock runs; each   *)
(* platform call can fail.                                                 *)

\* getScheduledNotifications(): the platform's list is passed through, and
\* so is its rejection (the function has no try/catch)
getScheduledNotifications(pending, platformOk) ==
    IF platformOk THEN [listed |-> pending, raised |-> FALSE]
    ELSE [listed |-> {}, raised |-> TRUE]

\* cancelNotification that leaves the alert pending
cancelNotificationKeeps(notificationId, pending, platformOk) ==
    [pending |-> pending, raised |-> ~platformOk]

\* cancelNotification(notificationId): the platform drops the pending alert
\* with that identifier, if any; its rejection is passed through
cancelNotification(notificationId, pending, platformOk) ==
    IF platformOk
    THEN [pending |-> {a \in pending : a.identifier # notificationId}, raised |-> FALSE]
    ELSE [pending |-> pending, raised |-> TRUE]

\* the identifiers a caller passes to cancelNotification
AlertIdentifiers == 1..(MaxScheduled + 1)

InitAlerts ==
    /\ now = 0
    /\ tz = NoDst
    /\ NotifIdle
    /\ PolicyIdle /\ VaultIdle /\ CountdownIdle /\ StoreIdle /\ AppIdle

\* scheduleUnlockNotification(echo) is called and returns
ScheduleAlert(echo, outcome) ==
    LET r == scheduleUnlockNotification(echo, now, scheduled, outcome)
    IN  /\ r.pending # scheduled => Cardinality(scheduled) < MaxScheduled
        /\ scheduled' = r.pending
        /\ mgmtOp' = [NoMgmtOp EXCEPT !.op = "schedule", !.id = r.result.id,
                                      !.platformOk = (outcome # "rejected"),
                                      !.raised = r.raised]
        /\ notifOp' = [called |-> TRUE, echo |-> echo, result |-> r.result, raised |-> r.raised]
        /\ UNCHANGED <<clockVars, policyVars, vaultVars, countdownVars, storeVars,
                       lockVars, assetVars, remoteVars, fetchVars, route, playback>>

\* getScheduledNotifications() is called and returns or throws
GetScheduledNotifications ==
    /\ \E platformOk \in BOOLEAN :
         mgmtOp' = [NoMgmtOp EXCEPT
                      !.op = "list", !.platformOk = platformOk,
                      !.listed = getScheduledNotifications(scheduled, platformOk).listed,
                      !.raised = getScheduledNotifications(scheduled, platformOk).raised]
    /\ UNCHANGED <<clockVars, policyVars, vaultVars, countdownVars, notifVars, storeVars,
                   lockVars, assetVars, remoteVars, fetchVars, route, playback>>

\* cancelNotification(notificationId) is called and returns or throws
CancelNotification(notificationId) ==
    /\ \E platformOk \in BOOLEAN :
         /\ scheduled' = cancelNotification(notificationId, scheduled, platformOk).pending
         /\ mgmtOp' = [NoMgmtOp EXCEPT
                         !.op = "cancel", !.id = notificationId, !.platformOk = platformOk,
                         !.raised = cancelNotification(notificationId, scheduled, platformOk).raised]
    /\ UNCHANGED <<clockVars, policyVars, vaultVars, countdownVars, notifOp, storeVars,
                   lockVars, assetVars, remoteVars, fetchVars, route, playback>>

NextAlerts ==
    \/ Tick
    \/ \E echo \in NotifyEchoes :
         \E outcome \in PlatformOutcomes(ParseDate(echo.unlock_at)) : ScheduleAlert(echo, outcome)
    \/ GetScheduledNotifications
    \/ \E notificationId \in AlertIdentifiers : CancelNotification(notificationId)

SpecAlerts == InitAlerts /\ [][NextAlerts]_vars

\* C18: every core operation reports a failure of its underlying capability
\* as a returned value and never lets an exception reach the caller: no call
\* of the notification service ends with an exception.  (uploadAudio,
\* saveEchoRecord and getEchoes return null, false or true, and [] from
\* their catch blocks.)
C18_NoExceptionReachesCaller ==
    ~mgmtOp.raised /\ ~notifOp.raised

\* the echo's unlock time is an instant later than `at`
InFuture(echo, at) == echo.unlock_at.kind = "iso" /\ echo.unlock_at.t > at

\* C19: for an echo with an id and unlock_at in the future, a
\* scheduleUnlockNotification call the platform accepts returns a non-null
\* identifier, and the alert with that identifier, carrying the echo's id, is
\* in what getScheduledNotifications() lists; after cancelNotification on an
\* identifier has returned, no alert with it is listed and the other alerts
\* still are; a listing returns the pending alerts.  (Stated on the steps
\* that are calls, by what mgmtOp and notifOp hold after them.)
C19_ScheduleThenCancel ==
    [][now' = now =>
        /\ (mgmtOp'.op = "schedule" /\ mgmtOp'.platformOk
               /\ notifOp'.echo.id # "" /\ InFuture(notifOp'.echo, now)) =>
                /\ mgmtOp'.id # 0 /\ ~mgmtOp'.raised
                /\ notifOp'.result = Identifier(mgmtOp'.id)
                /\ \E a \in getScheduledNotifications(scheduled', TRUE).listed :
                      /\ a.identifier = mgmtOp'.id
                      /\ a.echoId = notifOp'.echo.id
                      /\ a.date = ParseDate(notifOp'.echo.unlock_at)
        /\ (mgmtOp'.op = "cancel" /\ ~mgmtOp'.raised) =>
                /\ \A a \in getScheduledNotifications(scheduled', TRUE).listed :
                      a.identifier # mgmtOp'.id
                /\ \A a \in scheduled : a.identifier # mgmtOp'.id => a \in scheduled'
        /\ (mgmtOp'.op = "list" /\ ~mgmtOp'.raised) =>
                mgmtOp'.listed = scheduled /\ scheduled' = scheduled
      ]_vars

\* the alert scheduled for an echo that unlocks later was cancelled by the
\* identifier the call returned, and nothing is pending
C19_Witness ==
    /\ notifOp.called
    /\ ~notifOp.result.isNull
    /\ InFuture(notifOp.echo, now)
    /\ mgmtOp.op = "cancel"
    /\ mgmtOp.id = notifOp.result.id
    /\ ~mgmtOp.raised
    /\ scheduled = {}

----------------------------------------------------------------------------
(* Specification of alert delivery: alerts are scheduled for the echoes of *)
(* the local store; a delivered alert is tapped, the response listener     *)
(* navigates to the playback screen and loadEchoData looks the echo up.    *)

\* the first element of the list, whatever its id
findEchoFirst(list, echoId) ==
    IF list = <<>> THEN [found |-> FALSE, echo |-> NoEcho]
    ELSE [found |-> TRUE, echo |-> list[1]]

\* echoes.find(e => e.id === echoId): the first record with that id, if any
findEcho(list, echoId) ==
    LET hits == {i \in DOMAIN list : list[i].id = echoId}
    IN  IF hits = {} THEN [found |-> FALSE, echo |-> NoEcho]
        ELSE [found |-> TRUE, echo |-> list[CHOOSE i \in hits : \A j \in hits : i <= j]]

\* loadEchoData() for a screen opened with an echoId and no echo: the state
\* the playback screen is left in
loadEchoData(db, readOk, echoId, at) ==
    LET foundEcho == findEcho(getEchoes(db, readOk, ANONYMOUS_USER_ID), echoId)
    IN  IF ~foundEcho.found THEN [pc |-> "notFound", echo |-> NoEcho]
        ELSE IF playbackLocked(foundEcho.echo, at) THEN [pc |-> "locked", echo |-> NoEcho]
        ELSE [pc |-> "shown", echo |-> foundEcho.echo]

\* the records the local store can hold, and the stores tried
TapRecord(id, unlock, rand) ==
    Echo(id, ANONYMOUS_USER_ID, LocalPath(generateFileName(0, rand)), Iso(0), Iso(unlock), "")
TapStores ==
    { <<>>,
      <<TapRecord("a", 1, "r1")>>,
      <<TapRecord("a", 1, "r1"), TapRecord("b", 1, "r2")>>,
      <<TapRecord("b", 2, "r2"), TapRecord("a", 1, "r1")>>,
      <<TapRecord("c", 0, "r1"), TapRecord("a", 1, "r2")>>,
      <<TapRecord("a", 1, "r1"), TapRecord("a", 2, "r2")>> }

InitTap ==
    /\ now = 0
    /\ tz = NoDst
    /\ localDb \in TapStores
    /\ saveCalls = [c \in Callers |-> IdleCall] /\ getOp = NoGetOp
    /\ NotifIdle
    /\ PolicyIdle /\ VaultIdle /\ CountdownIdle /\ AppIdle

\* scheduleUnlockNotification(echo) is called for a stored echo
ScheduleForStored ==
    \E i \in DOMAIN localDb :
        \E outcome \in PlatformOutcomes(ParseDate(localDb[i].unlock_at)) :
            ScheduleAlert([id |-> localDb[i].id, unlock_at |-> localDb[i].unlock_at], outcome)

\* a pending alert whose date has come is delivered and tapped: the response
\* listener reads data.echoId and, when it is set and the navigation
\* reference is, navigates to PlaybackScreen with it; the screen mounts and
\* starts loadEchoData
NotificationResponseReceived(a) ==
    /\ a \in scheduled
    /\ a.date.valid => a.date.t <= now
    /\ scheduled' = scheduled \ {a}
    /\ \E navigationRefSet \in BOOLEAN :
         IF a.echoId # "" /\ navigationRefSet
         THEN /\ route' = [screen |-> "PlaybackScreen", echoId |-> a.echoId]
              /\ playback' = [NoPlayback EXCEPT !.pc = "load"]
         ELSE UNCHANGED <<route, playback>>
    /\ UNCHANGED <<clockVars, policyVars, vaultVars, countdownVars, notifOp, storeVars,
                   lockVars, assetVars, remoteVars, fetchVars, mgmtOp>>

\* loadEchoData() returns: the echo is shown, or one of the two alerts is
LoadEchoData ==
    /\ playback.pc = "load"
    /\ \E readOk \in BOOLEAN :
         playback' = loadEchoData(localDb, readOk, route.echoId, now)
    /\ UNCHANGED <<clockVars, policyVars, vaultVars, countdownVars, notifVars, storeVars,
                   lockVars, assetVars, remoteVars, fetchVars, mgmtOp, route>>

\* the user leaves the playback screen (OK on an alert calls goBack)
PlaybackGoBack ==
    /\ playback.pc \in {"shown", "locked", "notFound"}
    /\ route' = NoRoute
    /\ playback' = NoPlayback
    /\ UNCHANGED <<clockVars, policyVars, vaultVars, countdownVars, notifVars, storeVars,
                   lockVars, assetVars, remoteVars, fetchVars, mgmtOp>>

NextTap ==
    \/ Tick
    \/ ScheduleForStored
    \/ \E a \in scheduled : NotificationResponseReceived(a)
    \/ LoadEchoData
    \/ PlaybackGoBack

SpecTap == InitTap /\ [][NextTap]_vars

\* C20: every scheduled alert carries the id of the echo it was scheduled
\* for, a tap on a delivered alert navigates to playback with exactly that
\* id, and the echo playback then shows is the stored record with that id,
\* never another one.
C20_AlertOpensItsEcho ==
    /\ [](/\ \A a \in scheduled : a.echoId # ""
          /\ playback.pc # "none" => route.screen = "PlaybackScreen"
          /\ playback.pc = "shown" =>
                /\ playback.echo.id = route.echoId
                /\ playback.echo \in Range(localDb))
    /\ [][/\ \A a \in scheduled' \ scheduled : a.echoId = notifOp'.echo.id
          /\ (route' # route /\ route'.screen = "PlaybackScreen") =>
                \E a \in scheduled \ scheduled' : route'.echoId = a.echoId
         ]_vars

\* after a tap on the alert of echo "b", playback shows the record "b" of a
\* store in which another record comes first
C20_Witness ==
    /\ playback.pc = "shown"
    /\ route.echoId = "b"
    /\ playback.echo.id = "b"
    /\ Len(localDb) = 2
    /\ localDb[1].id = "a"

----------------------------------------------------------------------------
(* Scheduling after a save *)

\* C21: in the save flow every successful persist of a new record (whose
\* unlock time lies in the future) is followed by scheduling an alert for
\* it: when handleConfirm ends with success and the record stored, a pending
\* alert for the record's unlock time exists.
C21_AlertPendingAfterSave ==
    [][(/\ lock.pc \in {"write", "insert"} /\ lock'.pc = "idle"
        /\ alert' = "locked"
        /\ Len(localDb') + Len(remoteDb') > Len(localDb) + Len(remoteDb)
        /\ DateGT(lock.unlockDate, DateOf(now)))
          => \E a \in scheduled' : a.date = lock.unlockDate
      ]_vars

----------------------------------------------------------------------------
(* Specification of the audio asset manager: uploadAudio is called once on *)
(* a source that is missing, empty or a recording, for a name and a        *)
(* destination (AUDIO_DIRECTORY or the bucket) that may hold that name.    *)

\* the file at `uri`: missing, of zero bytes, or a recording; a stored file's
\* content is written the same way ("earlier" is a recording stored before)
Sources == {"missing", "empty", "audio"}

\* What the platform does for uploadAudio: getInfoAsync reports exists: false
\* (fetch(uri) rejects) for a missing source; nothing in either version looks
\* at the size; the copy or the upload itself works or not.
transferOutcome(source, transferOk) ==
    IF source = "missing" THEN "missing"
    ELSE IF transferOk THEN "ok" ELSE "failed"

\* uploadAudio(uri, fileName) on a destination whose files are `dir` (name ->
\* content): the value returned and the destination's files afterwards.  The
\* local version copies onto `destination` whether or not it exists; the
\* remote version uploads with upsert: false.
uploadAudioFrom(version, source, fileName, dir, transferOk) ==
    LET outcome == transferOutcome(source, transferOk)
        r == IF version = "local" THEN uploadAudioLocal(fileName, DOMAIN dir, outcome)
             ELSE uploadAudioRemote(fileName, DOMAIN dir, outcome)
    IN  [url |-> r.url,
         after |-> IF r.url = NullUrl THEN dir
                   ELSE [n \in r.files |-> IF n = fileName THEN source ELSE dir[n]]]

UploadNames == {generateFileName(0, rand) : rand \in Rands}
UploadDirs == UNION {[S -> {"earlier"}] : S \in SUBSET UploadNames}

InitUpload ==
    /\ now = 0
    /\ tz = NoDst
    /\ lib \in {"local", "remote"}
    /\ uploadOp \in {[NoUploadOp EXCEPT !.source = source, !.fileName = fileName,
                                        !.dir = dir, !.transferOk = transferOk, !.after = dir] :
                        source \in Sources, fileName \in UploadNames,
                        dir \in UploadDirs, transferOk \in BOOLEAN}
    /\ files = {} /\ remoteFiles = {}
    /\ LockIdle /\ remoteDb = <<>> /\ FetchIdle /\ TapIdle
    /\ StoreIdle
    /\ PolicyIdle /\ VaultIdle /\ CountdownIdle /\ NotifIdle

\* uploadAudio(uri, fileName) is called and returns
UploadAudio ==
    /\ ~uploadOp.called
    /\ uploadOp' = [uploadOp EXCEPT
                      !.called = TRUE,
                      !.url = uploadAudioFrom(lib, uploadOp.source, uploadOp.fileName,
                                              uploadOp.dir, uploadOp.transferOk).url,
                      !.after = uploadAudioFrom(lib, uploadOp.source, uploadOp.fileName,
                                                uploadOp.dir, uploadOp.transferOk).after]
    /\ UNCHANGED <<clockVars, policyVars, vaultVars, countdownVars, notifVars, storeVars,
                   lockVars, files, remoteFiles, remoteVars, fetchVars, tapVars>>

NextUpload == UploadAudio

SpecUpload == InitUpload /\ [][NextUpload]_vars

\* C22: uploadAudio validates that the source exists and is not empty before
\* any copy or upload: for a missing source and for a source of zero bytes it
\* returns null and transfers nothing.
C22_SourceValidatedNonEmpty ==
    (uploadOp.called /\ uploadOp.source \in {"missing", "empty"}) =>
        /\ uploadOp.url = NullUrl
        /\ uploadOp.after = uploadOp.dir

\* C23: storing under a name the destination already holds is a failure and
\* leaves the file of that name as it was; nothing is overwritten.
C23_NameCollisionFails ==
    (uploadOp.called /\ uploadOp.fileName \in DOMAIN uploadOp.dir) =>
        /\ uploadOp.url = NullUrl
        /\ uploadOp.after[uploadOp.fileName] = uploadOp.dir[uploadOp.fileName]

----------------------------------------------------------------------------
(* Specification of the vault in use: the clock runs while the vault lists *)
(* the echoes (fetchEchoes), an available echo is opened from the list,    *)
(* and alerts scheduled for stored echoes are tapped.                      *)

\* a stored record whose unlock_at is not a date
UndatedRecord ==
    Echo("g", ANONYMOUS_USER_ID, LocalPath(generateFileName(0, "r1")), Iso(0), Garbage, "")

\* the local stores and the remote tables tried
OpenStores ==
    { <<TapRecord("a", 1, "r1")>>,
      <<TapRecord("b", 2, "r2"), TapRecord("a", 1, "r1")>>,
      <<TapRecord("a", 2, "r1"), TapRecord("a", 1, "r2")>>,
      <<UndatedRecord>> }
OpenTables ==
    { <<>>,
      <<Echo("c", ANONYMOUS_USER_ID, PublicUrl(generateFileName(0, "r2")), Iso(0), Iso(1), "")>> }

InitOpen ==
    /\ now = 0
    /\ tz = NoDst
    /\ localDb \in OpenStores
    /\ remoteDb \in OpenTables
    /\ saveCalls = [c \in Callers |-> IdleCall] /\ getOp = NoGetOp
    /\ lib = "local" /\ LockIdle /\ AssetIdle /\ FetchIdle /\ TapIdle
    /\ NotifIdle
    /\ PolicyIdle /\ VaultIdle /\ CountdownIdle

\* navigateToPlayback(item): an item of the Available list is pressed; the
\* playback screen opens with the echo as its parameter and state
NavigateToPlayback(i) ==
    /\ ~loading
    /\ playback.pc = "none"
    /\ i \in DOMAIN availableEchoes
    /\ route' = [screen |-> "PlaybackScreen", echoId |-> ""]
    /\ playback' = [pc |-> "shown", echo |-> availableEchoes[i]]
    /\ UNCHANGED <<clockVars, policyVars, vaultVars, countdownVars, notifVars, storeVars,
                   lockVars, assetVars, remoteVars, fetchVars, mgmtOp>>

NextOpen ==
    \/ Tick
    \/ \E f \in FetchSlots : FetchEchoesCall(f)
    \/ \E f \in FetchSlots : FetchRemoteReturns(f)
    \/ \E f \in FetchSlots : FetchLocalReturns(f)
    \/ \E i \in DOMAIN availableEchoes : NavigateToPlayback(i)
    \/ ScheduleForStored
    \/ \E a \in scheduled : NotificationResponseReceived(a)
    \/ LoadEchoData
    \/ PlaybackGoBack

SpecOpen == InitOpen /\ [][NextOpen]_vars

\* C24 as stated: whenever the vault is displayed, no record whose unlock
\* time has come is in the locked list.
C24_DueNeverShownLocked ==
    ~loading => \A i \in DOMAIN lockedEchoes : ~Due(lockedEchoes[i], now)

\* C24: the status is not stored with the records and is recomputed by every
\* fetchEchoes: the lists hold stored records as they are, and a fetch that
\* ends sets the available list to the fetched records due at that moment
\* and the locked list to the others; the lists change in no other step.
C24_StatusRecomputedByEachFetch ==
    /\ [](\A i \in DOMAIN echoes : echoes[i] \in Range(localDb) \cup Range(remoteDb))
    /\ [][/\ (\E f \in FetchSlots : fetches[f].pc # "done" /\ fetches'[f].pc = "done") =>
                /\ \A i \in DOMAIN availableEchoes' : Due(availableEchoes'[i], now')
                /\ \A i \in DOMAIN lockedEchoes' : ~Due(lockedEchoes'[i], now')
                /\ \A i \in DOMAIN echoes' :
                     Occ(availableEchoes', echoes'[i]) + Occ(lockedEchoes', echoes'[i])
                        = Occ(echoes', echoes'[i])
          /\ <<echoes, availableEchoes, lockedEchoes>>' # <<echoes, availableEchoes, lockedEchoes>> =>
                \E f \in FetchSlots : fetches[f].pc # "done" /\ fetches'[f].pc = "done"
         ]_vars

\* a listing made when the clock read 1 shows the record due at 1 as
\* available and the record due at 2 as locked
C24_Witness ==
    /\ ~loading
    /\ now = 1
    /\ \E i \in DOMAIN availableEchoes : availableEchoes[i].unlock_at = Iso(1)
    /\ \E i \in DOMAIN lockedEchoes : lockedEchoes[i].unlock_at = Iso(2)

----------------------------------------------------------------------------
(* Frame and result of a save into the local store *)

\* C26: saveEchoRecord only appends: every record in the store before the
\* call is there, at its place and unchanged, after the call, also when
\* reading the existing records fails during the call.
C26_SaveOnlyAppends ==
    [][\A c \in StoreCallers :
            (saveCalls[c].pc = "write" /\ saveCalls'[c].pc = "idle") =>
                /\ Len(localDb') >= Len(localDb)
                /\ \A i \in DOMAIN localDb : localDb'[i] = localDb[i]
      ]_vars

\* C27: saveEchoRecord returns true only if the new record was written: when
\* the call ends having returned true, the store is the list the call
\* built, whose last record is the new one.
C27_TrueOnlyIfWritten ==
    [][\A c \in StoreCallers :
            (saveCalls[c].pc = "write" /\ saveCalls'[c].pc = "idle") =>
                \A writeOk \in BOOLEAN :
                    LET r == saveEchoRecordLocal(localDb, saveCalls[c].records, writeOk)
                    IN  (localDb' = r.db /\ r.saved) => localDb' = saveCalls[c].records
      ]_vars

----------------------------------------------------------------------------
(* Specification of interleaved saves: two callers run saveEchoRecord on   *)
(* the local store, each suspended at its awaits; storage reads and writes *)
(* work.                                                                   *)

InitInterleave == InitStore

NextInterleave ==
    \/ StoreTick
    \/ \E c \in Callers : SaveEchoRecordCall(c)
    \/ \E c \in Callers : SaveEchoRecordReadWhen(c, {TRUE})
    \/ \E c \in Callers : SaveEchoRecordWriteWhen(c, {TRUE})

SpecInterleave == InitInterleave /\ [][NextInterleave]_vars

\* C30: no save is lost to another's read-modify-write: when a call ends,
\* the store holds its new record and still holds every record that was
\* stored before, those of the other caller included.
C30_NoSaveLost ==
    [][\A c \in Callers :
            (saveCalls[c].pc = "write" /\ saveCalls'[c].pc = "idle") =>
                /\ saveCalls[c].records[Len(saveCalls[c].records)] \in Range(localDb')
                /\ Range(localDb) \subseteq Range(localDb')
      ]_vars

----------------------------------------------------------------------------
(* Specification of overlapping listings: fetchEchoes is called while      *)
(* another call is pending (on mount and by the focus listener, or by      *)
(* Refresh), and the calls end in any order.                               *)

OverlapSlots == {"f1", "f2"}

InFlightFetches == {f \in DOMAIN fetches : fetches[f].pc \in {"remote", "local"}}

InitOverlap ==
    /\ now \in FetchNows
    /\ tz = NoDst
    /\ remoteDb \in SeqsUpTo(FetchRecords, MaxFetchLen)
    /\ localDb \in SeqsUpTo(FetchRecords, MaxFetchLen)
    /\ saveCalls = [c \in Callers |-> IdleCall] /\ getOp = NoGetOp
    /\ lib = "local" /\ LockIdle /\ AssetIdle /\ TapIdle
    /\ loading = TRUE /\ fetches = [f \in OverlapSlots |-> IdleFetch]
    /\ lastStarted = "" /\ shownFrom = ""
    /\ PolicyIdle /\ VaultIdle /\ CountdownIdle /\ NotifIdle

NextOverlap ==
    \/ \E f \in OverlapSlots : FetchEchoesCall(f)
    \/ \E f \in OverlapSlots : FetchRemoteReturns(f)
    \/ \E f \in OverlapSlots : FetchLocalReturns(f)

SpecOverlap == InitOverlap /\ [][NextOverlap]_vars

\* C28: when fetchEchoes calls overlap, loading is false only when no call
\* is pending, the three lists come from one and the same fetch result, and
\* once no call is pending the lists displayed are those of the call that
\* started last.
C28_LastStartedFetchShown ==
    /\ ~loading => InFlightFetches = {}
    /\ \A i \in DOMAIN echoes :
         Occ(availableEchoes, echoes[i]) + Occ(lockedEchoes, echoes[i]) = Occ(echoes, echoes[i])
    /\ (InFlightFetches = {} /\ shownFrom # "") => shownFrom = lastStarted

----------------------------------------------------------------------------
(* Specification of the save flow with its awaits settling: the 1-day      *)
(* option has been selected; every promise handleConfirm awaits            *)
(* (uploadAudio, saveEchoRecord) is eventually resolved or rejected by the *)
(* platform.                                                               *)

InitRetry ==
    /\ now = 0
    /\ tz = NoDst
    /\ lib \in {"local", "remote"}
    /\ selectedOption = "1day" /\ isLoading = FALSE /\ lock = IdleLock /\ alert = "none"
    /\ AssetIdle /\ remoteDb = <<>> /\ FetchIdle /\ TapIdle
    /\ StoreIdle
    /\ PolicyIdle /\ VaultIdle /\ CountdownIdle /\ NotifIdle

NextRetry ==
    \/ LockTick
    \/ HandleConfirm
    \/ \E outcome \in TransferOutcomes : UploadAudioReturns(outcome)
    \/ ConfirmSaveRead
    \/ ConfirmSaveWrite
    \/ ConfirmSaveInsert

SpecRetry ==
    /\ InitRetry /\ [][NextRetry]_vars
    /\ WF_vars(\E outcome \in TransferOutcomes : UploadAudioReturns(outcome))
    /\ WF_vars(ConfirmSaveRead)
    /\ WF_vars(ConfirmSaveWrite)
    /\ WF_vars(ConfirmSaveInsert)

\* C29: every handleConfirm that has started eventually sets isLoading back
\* to false, whether it succeeds, the upload fails or the persist fails, so
\* the confirm control is enabled again; nothing of an ended attempt is
\* kept, and an attempt, a retry included, starts with a file name made from
\* the clock reading of that moment and a new random draw and with an unlock
\* date computed from that clock reading.
C29_LoadingResetAndFreshRetry ==
    /\ isLoading ~> ~isLoading
    /\ [](lock.pc = "idle" => (lock = IdleLock /\ ~confirmDisabled))
    /\ [][/\ (lock.pc # "idle" /\ lock'.pc = "idle") =>
                (~isLoading' /\ alert' \in {"locked", "error"})
          /\ (lock.pc = "idle" /\ lock'.pc # "idle") =>
                /\ lock'.pc = "upload"
                /\ lock'.fileName.at = now
                /\ lock'.fileName.rand \in Rands
                /\ lock'.unlockDate = DateOf(now + optionById(selectedOption).days * DAY)
         ]_vars

\* after an attempt that ended with the error alert, a retry is pending: it
\* started when the clock read 1, with a file name and an unlock date of
\* that moment
C29_Witness ==
    /\ alert = "error"
    /\ isLoading
    /\ lock.pc = "upload"
    /\ now = 1
    /\ lock.fileName.at = 1
    /\ lock.unlockDate = DateOf(1 + DAY)

====
